---- MODULE Spec2Model ----
(***************************************************************************)
(* A model of the resume builder: text acquisition (Text_Extraction.py),   *)
(* the Streamlit orchestrator (app.py) and template population             *)
(* (Placeholder_Insertion.py).                                             *)
(*                                                                         *)
(* Text is a sequence of atoms (strings): a placeholder token such as      *)
(* "{NAME}" is one atom, so a token always lies inside one run, as the     *)
(* template contract requires.  A document is a sequence of tables, a      *)
(* table a sequence of rows, a row a record with a sequence of cells, a    *)
(* cell the sequence of its paragraphs, a paragraph a record with a        *)
(* sequence of runs.  The fields rid, src, ent of a row and pid of a       *)
(* paragraph stand for Python object identity: they are never read by the  *)
(* modelled code, only by the properties.                                  *)
(***************************************************************************)
EXTENDS Naturals, Sequences, FiniteSets, TLC

VARIABLES
    pc,                     \* position of the running script / call
    template,               \* the document stored at template_path
    upload,                 \* the file in the uploader (NoFile when empty)
    submitted,              \* value of the form's submit button in this run
    extracted_text,         \* st.session_state.extracted_text
    parsed_data,            \* st.session_state.parsed_data (data of generate_resume)
    generated_doc_buffer,   \* st.session_state.generated_doc_buffer
    doc,                    \* the document generate_resume mutates
    tbl,                    \* per category: index of the table being expanded
    tmpl,                   \* per category: template_rows (row identities)
    ei,                     \* index of the data entry of the clone loop
    ri,                     \* index into template_rows of the clone/remove loop
    nextId,                 \* next fresh row identity
    scanDoc,                \* per category: the document as it was when scanned
    ocrCalls,               \* number of pytesseract.image_to_string calls
    ocrPath,                \* whether the OCR fallback was entered
    stages,                 \* stages run by the current submission, in order
    cell,                   \* the cell replace_with_bullet_points is called in
    cell0,                  \* that cell before the call
    bkey,                   \* key argument of the call
    bitems,                 \* bullet_points argument of the call
    bpar                    \* index in cell0 of the paragraph argument

vars == <<pc, template, upload, submitted, extracted_text, parsed_data,
          generated_doc_buffer, doc, tbl, tmpl, ei, ri, nextId, scanDoc,
          ocrCalls, ocrPath, stages, cell, cell0, bkey, bitems, bpar>>

(***************************************************************************)
(* Bounds of the model.                                                    *)
(***************************************************************************)
MaxEdu == 2
MaxWork == 2
MaxItems == 2
MaxPages == 2

(***************************************************************************)
(* Python / JSON values.                                                   *)
(***************************************************************************)
None == [k |-> "null"]
JStr(s) == [k |-> "str", s |-> s]
JList(xs) == [k |-> "list", xs |-> xs]

\* a set as a sequence, in some order
RECURSIVE SetToSeq(_)
SetToSeq(S) ==
    IF S = {} THEN <<>>
    ELSE LET x == CHOOSE x \in S : TRUE IN <<x>> \o SetToSeq(S \ {x})

\* an object (dict): its fields and, in keys, the order they were inserted
\* in, the order of the JSON text; JObj takes some order, Ordered a given one
JObj(f) == [k |-> "obj", f |-> f, keys |-> SetToSeq(DOMAIN f)]
Ordered(obj, keys) == [obj EXCEPT !.keys = keys]
EmptyObj == JObj([x \in {} |-> None])

IsNone(v) == v.k = "null"

\* bool(v)
Truthy(v) ==
    CASE v.k = "null" -> FALSE
      [] v.k = "str" -> Len(v.s) > 0
      [] v.k = "list" -> Len(v.xs) > 0
      [] v.k = "obj" -> DOMAIN v.f # {}
      [] OTHER -> TRUE

\* str(v) for the values that reach a substitution
Str(v) ==
    CASE v.k = "str" -> v.s
      [] v.k = "null" -> <<"None">>
      [] OTHER -> <<"repr">>

\* d.get(key, default)
Get(d, key, default) == IF key \in DOMAIN d.f THEN d.f[key] ELSE default

\* `for x in v` raises TypeError unless v is a list, a string or an object
Iterable(v) == v.k \in {"list", "str", "obj"}

\* the values `for x in v` visits: the items of a list, the characters of a
\* string (an atom of a text counts as one character), the keys of an object
\* in insertion order
IterItems(v) ==
    CASE v.k = "list" -> v.xs
      [] v.k = "str" -> [i \in DOMAIN v.s |-> JStr(<<v.s[i]>>)]
      [] v.k = "obj" -> [i \in DOMAIN v.keys |-> JStr(<<v.keys[i]>>)]

(***************************************************************************)
(* Text.                                                                   *)
(***************************************************************************)
\* key in text
ContainsKey(text, key) == \E i \in DOMAIN text : text[i] = key

\* text.replace(key, val)
RECURSIVE StrReplace(_, _, _)
StrReplace(text, key, val) ==
    IF text = <<>> THEN <<>>
    ELSE (IF Head(text) = key THEN val ELSE <<Head(text)>>)
         \o StrReplace(Tail(text), key, val)

\* "".join(parts)
RECURSIVE Concat(_)
Concat(parts) ==
    IF parts = <<>> THEN <<>> ELSE Head(parts) \o Concat(Tail(parts))

\* sep.join(parts)
RECURSIVE Join(_, _)
Join(sep, parts) ==
    IF parts = <<>> THEN <<>>
    ELSE IF Len(parts) = 1 THEN Head(parts)
    ELSE Head(parts) \o sep \o Join(sep, Tail(parts))

Newline == "\n"
Digit == <<"1", "2", "3", "4", "5", "6", "7", "8">>

(***************************************************************************)
(* The document tree (python-docx).                                        *)
(***************************************************************************)
DefaultStyle == "Normal"

Run(text, bold) == [text |-> text, bold |-> bold]
Para(pid, style, runs) == [pid |-> pid, style |-> style, runs |-> runs]
P(pid, text) == Para(pid, "Body", <<Run(text, FALSE)>>)
Row(rid, cells) == [rid |-> rid, src |-> 0, ent |-> 0, cells |-> cells]

\* paragraph.text
ParagraphText(p) == Concat([i \in DOMAIN p.runs |-> p.runs[i].text])
\* cell.text
CellText(c) == Join(<<Newline>>, [i \in DOMAIN c |-> ParagraphText(c[i])])
\* "".join(cell.text for cell in row.cells)
RowText(r) == Concat([i \in DOMAIN r.cells |-> CellText(r.cells[i])])

(***************************************************************************)
(* replace_text_in_paragraph                                               *)
(***************************************************************************)
replace_text_in_paragraph(p, key, value) ==
    [p EXCEPT !.runs =
        [i \in DOMAIN @ |->
            IF ContainsKey(@[i].text, key)
            THEN [@[i] EXCEPT !.text = StrReplace(@, key, Str(value))]
            ELSE @[i]]]

(***************************************************************************)
(* replace_with_bullet_points.  The call works on a context: p is the      *)
(* paragraph object, attached tells whether it is still a child of the     *)
(* cell, added are the paragraphs the call appended to the cell            *)
(* (parent.add_paragraph appends at the end of the cell), raised tells     *)
(* whether an exception left the call.                                     *)
(***************************************************************************)
BulletPrefix == "U+2022 "
AchievementsKey == "{ACHIEVEMENTS}"

Ctx(p) == [p |-> p, attached |-> TRUE, added |-> <<>>, raised |-> FALSE]

\* index of the first run containing key, 0 when there is none
TemplateRun(p, key) ==
    IF \E i \in DOMAIN p.runs : ContainsKey(p.runs[i].text, key)
    THEN CHOOSE i \in DOMAIN p.runs :
            /\ ContainsKey(p.runs[i].text, key)
            /\ \A j \in 1..(i - 1) : ~ContainsKey(p.runs[j].text, key)
    ELSE 0

\* formatted_text.split('\n')
RECURSIVE SplitLines(_)
SplitLines(text) ==
    IF \A i \in DOMAIN text : text[i] # Newline THEN <<text>>
    ELSE LET i == CHOOSE i \in DOMAIN text :
                    /\ text[i] = Newline
                    /\ \A j \in 1..(i - 1) : text[j] # Newline
         IN <<SubSeq(text, 1, i - 1)>>
            \o SplitLines(SubSeq(text, i + 1, Len(text)))

\* lines 41-58: the first line replaces the key in the first run holding it,
\* every further line follows a line break in that run
replace_with_multiline_text(p, key, formatted_text) ==
    LET lines == SplitLines(formatted_text)
        t == TemplateRun(p, key)
    IN IF t = 0 THEN p
       ELSE [p EXCEPT !.runs[t].text =
                StrReplace(@, key, Head(lines))
                \o Concat([i \in 1..(Len(lines) - 1) |->
                              <<Newline>> \o lines[i + 1]])]

HeaderParagraph(p, run) ==
    Para(0, p.style, <<Run(<<"Achievements:">>, TRUE)>>)

BulletParagraph(p, run, point) ==
    Para(0, p.style, <<Run(<<BulletPrefix>> \o point.s, run.bold)>>)

EmptyParagraph == Para(0, DefaultStyle, <<>>)

\* lines 93-94: the paragraph added and formatted before line 95 raises
PendingParagraph(p) == Para(0, p.style, <<>>)

\* number of leading items that are strings ("U+2022 " + point raises on the next)
RECURSIVE StrPrefixLen(_)
StrPrefixLen(xs) ==
    IF xs = <<>> \/ Head(xs).k # "str" THEN 0 ELSE 1 + StrPrefixLen(Tail(xs))

BulletParagraphs_Reversed(p, run, xs, n) ==
    [i \in 1..n |-> BulletParagraph(p, run, xs[n + 1 - i])]

\* lines 92-96: one paragraph per point, in list order
BulletParagraphs(p, run, xs, n) ==
    [i \in 1..n |-> BulletParagraph(p, run, xs[i])]

AchievementsSpacer_None(key) == <<>>

\* lines 99-100: parent.add_paragraph("") after the achievements
AchievementsSpacer(key) ==
    IF key = AchievementsKey THEN <<EmptyParagraph>> ELSE <<>>

\* lines 65-68: the token is replaced by "" in place, the paragraph stays
ReplaceEmpty(ctx, key) ==
    [ctx EXCEPT !.p = replace_text_in_paragraph(@, key, JStr(<<>>))]

replace_with_bullet_points(ctx, key, bullet_points) ==
    IF ctx.raised THEN ctx
    ELSE IF ~Truthy(bullet_points) THEN ReplaceEmpty(ctx, key)
    ELSE LET t == TemplateRun(ctx.p, key) IN
         IF t = 0 THEN ctx                                   \* lines 75-76
         ELSE LET run == ctx.p.runs[t]
                  \* lines 81-86: appended to the cell before the removal
                  header == IF key = AchievementsKey
                            THEN <<HeaderParagraph(ctx.p, run)>> ELSE <<>>
                  points == IterItems(bullet_points)
                  n == StrPrefixLen(points)
                  bullets == BulletParagraphs(ctx.p, run, points, n)
              IN IF ~ctx.attached
                 THEN \* line 89: getparent() is None for a removed paragraph
                      [ctx EXCEPT !.added = @ \o header, !.raised = TRUE]
                 ELSE IF n < Len(points)
                 THEN \* line 95: "U+2022 " + None raises TypeError, after
                      \* lines 93-94 added the paragraph of that point
                      [ctx EXCEPT !.attached = FALSE,
                                  !.added = @ \o header \o bullets
                                               \o <<PendingParagraph(ctx.p)>>,
                                  !.raised = TRUE]
                 ELSE [ctx EXCEPT !.attached = FALSE,
                                  !.added = @ \o header \o bullets
                                               \o AchievementsSpacer(key)]

\* The cell after the paragraph at index i was handled with final context ctx.
CellAfter(c, i, ctx) ==
    (IF ctx.attached
     THEN [c EXCEPT ![i] = ctx.p]
     ELSE SubSeq(c, 1, i - 1) \o SubSeq(c, i + 1, Len(c)))
    \o ctx.added


\* cell.paragraphs after every paragraph of the snapshot list(cell.paragraphs)
\* was handled: the surviving paragraphs in place, then what was appended.
CellOf(ctxs) ==
    Concat([i \in DOMAIN ctxs |->
                IF ctxs[i].attached THEN <<ctxs[i].p>> ELSE <<>>])
    \o Concat([i \in DOMAIN ctxs |-> ctxs[i].added])

AnyRaised(ctxs) == \E i \in DOMAIN ctxs : ctxs[i].raised

(***************************************************************************)
(* generate_resume, stage 1: simple replacements.                          *)
(***************************************************************************)
SimpleKeys == << <<"{NAME}", "name">>, <<"{CONTACT}", "contact_number">>,
                 <<"{EMAIL}", "email">>, <<"{NATIONALITY}", "nationality">>,
                 <<"{SUMMARY}", "summary">> >>

\* line 133
DisplayValue(value) == IF IsNone(value) THEN JStr(<<>>) ELSE JStr(Str(value))

RECURSIVE SimpleReplaceFrom(_, _, _)
SimpleReplaceFrom(p, data, i) ==
    IF i > Len(SimpleKeys) THEN p
    ELSE LET key == SimpleKeys[i][1]
             value == Get(data, SimpleKeys[i][2], None)
         IN SimpleReplaceFrom(
                IF ContainsKey(ParagraphText(p), key)
                THEN replace_text_in_paragraph(p, key, DisplayValue(value))
                ELSE p,
                data, i + 1)

SimpleStage(d, data) ==
    [t \in DOMAIN d |->
        [r \in DOMAIN d[t] |->
            [d[t][r] EXCEPT !.cells =
                [c \in DOMAIN d[t][r].cells |->
                    [k \in DOMAIN d[t][r].cells[c] |->
                        SimpleReplaceFrom(d[t][r].cells[c][k], data, 1)]]]]]

(***************************************************************************)
(* generate_resume, stage 3: skills and languages.                         *)
(***************************************************************************)
ListKeys == << <<"{SKILLS}", "skills">>, <<"{LANGUAGES}", "languages">> >>

RECURSIVE ListReplaceFrom(_, _, _)
ListReplaceFrom(ctx, data, i) ==
    IF i > Len(ListKeys) \/ ctx.raised THEN ctx
    ELSE LET key == ListKeys[i][1]
             value_list == Get(data, ListKeys[i][2], JList(<<>>))
         IN ListReplaceFrom(
                IF ContainsKey(ParagraphText(ctx.p), key)
                THEN replace_with_bullet_points(ctx, key, value_list)
                ELSE ctx,
                data, i + 1)

ListCellCtxs(c, data) ==
    [k \in DOMAIN c |-> ListReplaceFrom(Ctx(c[k]), data, 1)]

ListStage(d, data) ==
    [doc |->
        [t \in DOMAIN d |->
            [r \in DOMAIN d[t] |->
                [d[t][r] EXCEPT !.cells =
                    [c \in DOMAIN d[t][r].cells |->
                        CellOf(ListCellCtxs(d[t][r].cells[c], data))]]]],
     raised |->
        \E t \in DOMAIN d : \E r \in DOMAIN d[t] :
            \E c \in DOMAIN d[t][r].cells :
                AnyRaised(ListCellCtxs(d[t][r].cells[c], data))]

(***************************************************************************)
(* generate_resume, stages 2 and 4: the repeating blocks.  The category    *)
(* cat is "edu" (lines 136-174) or "work" (lines 190-233).                 *)
(***************************************************************************)
Cats == {"edu", "work"}

EducationPlaceholders == {"{DEGREE}", "{INSTITUTION}", "{EDUYEAR}", "{CGPA}"}
WorkExpPlaceholders == {"{COMPANYNAME}", "{DURATION}", "{JOBTITLE}",
                        "{JOBDESCRIPTION}", "{ACHIEVEMENTS}"}
Placeholders(cat) ==
    IF cat = "edu" THEN EducationPlaceholders ELSE WorkExpPlaceholders
ListField(cat) == IF cat = "edu" THEN "education" ELSE "work_experience"

\* lines 144-145, 199-200
IsTemplateRow(row, phs) == \E ph \in phs : ContainsKey(RowText(row), ph)

\* the block taken as the span from the first to the last matching row
TemplateRows_Span(table, phs) ==
    LET hits == {i \in DOMAIN table : IsTemplateRow(table[i], phs)}
    IN IF hits = {} THEN <<>>
       ELSE LET lo == CHOOSE i \in hits : \A j \in hits : i <= j
                hi == CHOOSE i \in hits : \A j \in hits : j <= i
            IN [i \in 1..(hi - lo + 1) |-> table[lo + i - 1].rid]

\* template_rows of a table, as row identities in table order
TemplateRows(table, phs) ==
    LET hit == SelectSeq(table, LAMBDA r : IsTemplateRow(r, phs))
    IN [i \in DOMAIN hit |-> hit[i].rid]

LastTemplateTable(d, phs) ==
    IF \E t \in DOMAIN d : TemplateRows(d[t], phs) # <<>>
    THEN CHOOSE t \in DOMAIN d :
            /\ TemplateRows(d[t], phs) # <<>>
            /\ \A u \in DOMAIN d : u > t => TemplateRows(d[u], phs) = <<>>
    ELSE 0

\* the table the loop over doc.tables stops at (continue / break), 0 for none
FirstTemplateTable(d, phs) ==
    IF \E t \in DOMAIN d : TemplateRows(d[t], phs) # <<>>
    THEN CHOOSE t \in DOMAIN d :
            /\ TemplateRows(d[t], phs) # <<>>
            /\ \A u \in 1..(t - 1) : TemplateRows(d[u], phs) = <<>>
    ELSE 0

HasRow(table, rid) == \E i \in DOMAIN table : table[i].rid = rid
RowById(table, rid) == table[CHOOSE i \in DOMAIN table : table[i].rid = rid]

\* tbl.remove(template_row._tr)
RemoveRow(table, rid) == SelectSeq(table, LAMBDA r : r.rid # rid)

\* deepcopy(template_row._element): a new row object with the same content
deepcopy(row, id, e) == [row EXCEPT !.rid = id, !.src = row.rid, !.ent = e]

PopulateEduParagraph_NoCgpa(p, experience) ==
    LET p1 == replace_text_in_paragraph(p, "{DEGREE}",
                    Get(experience, "degree", JStr(<<>>)))
        p2 == replace_text_in_paragraph(p1, "{INSTITUTION}",
                    Get(experience, "institution", JStr(<<>>)))
    IN Ctx(replace_text_in_paragraph(p2, "{EDUYEAR}",
                    Get(experience, "year", JStr(<<>>))))

\* lines 163-166
PopulateEduParagraph(p, experience) ==
    LET p1 == replace_text_in_paragraph(p, "{DEGREE}",
                    Get(experience, "degree", JStr(<<>>)))
        p2 == replace_text_in_paragraph(p1, "{INSTITUTION}",
                    Get(experience, "institution", JStr(<<>>)))
        p3 == replace_text_in_paragraph(p2, "{EDUYEAR}",
                    Get(experience, "year", JStr(<<>>)))
    IN Ctx(replace_text_in_paragraph(p3, "{CGPA}",
                    Get(experience, "cgpa", JStr(<<>>))))

\* lines 216-226
PopulateWorkParagraph(p, experience) ==
    LET p1 == replace_text_in_paragraph(p, "{COMPANYNAME}",
                    Get(experience, "company_name", JStr(<<>>)))
        p2 == replace_text_in_paragraph(p1, "{DURATION}",
                    Get(experience, "duration", JStr(<<>>)))
        p3 == replace_text_in_paragraph(p2, "{JOBTITLE}",
                    Get(experience, "job_title", JStr(<<>>)))
        c1 == IF ContainsKey(ParagraphText(p3), "{JOBDESCRIPTION}")
              THEN replace_with_bullet_points(Ctx(p3), "{JOBDESCRIPTION}",
                        Get(experience, "job_description", JList(<<>>)))
              ELSE Ctx(p3)
    IN IF ~c1.raised /\ ContainsKey(ParagraphText(c1.p), AchievementsKey)
       THEN replace_with_bullet_points(c1, AchievementsKey,
                Get(experience, "achievements", JList(<<>>)))
       ELSE c1

\* the body of `for p in list(cell.paragraphs)`; experience.get raises
\* AttributeError when the entry is not an object
PopulateParagraph(cat, p, experience) ==
    IF experience.k # "obj" THEN [Ctx(p) EXCEPT !.raised = TRUE]
    ELSE IF cat = "edu" THEN PopulateEduParagraph(p, experience)
    ELSE PopulateWorkParagraph(p, experience)

PopulateCellCtxs(cat, c, experience) ==
    [k \in DOMAIN c |-> PopulateParagraph(cat, c[k], experience)]

\* lines 161-166, 214-226: for cell in new_row.cells
PopulateRow(cat, row, experience) ==
    [row |-> [row EXCEPT !.cells =
                [c \in DOMAIN row.cells |->
                    CellOf(PopulateCellCtxs(cat, row.cells[c], experience))]],
     raised |-> \E c \in DOMAIN row.cells :
                    AnyRaised(PopulateCellCtxs(cat, row.cells[c], experience))]


(***************************************************************************)
(* Templates.                                                              *)
(***************************************************************************)
\* the usual layout: one table per section, a two-row education block
TemplateA ==
    << << Row(1, << <<P(1, <<"{NAME}">>)>>,
                    <<P(2, <<"Tel: ", "{CONTACT}">>), P(3, <<"{EMAIL}">>)>> >>),
          Row(2, << <<P(4, <<"{NATIONALITY}">>)>>,
                    <<P(5, <<"{SUMMARY}">>)>> >>) >>,
       << Row(3, << <<P(6, <<"Education">>)>>, <<P(7, <<>>)>> >>),
          Row(4, << <<P(8, <<"{DEGREE}">>)>>,
                    <<P(9, <<"{INSTITUTION}">>)>> >>),
          Row(5, << <<P(10, <<"{EDUYEAR}">>)>>,
                    <<P(11, <<"CGPA: ", "{CGPA}">>)>> >>) >>,
       << Row(6, << <<P(12, <<"Skills">>), P(13, <<"{SKILLS}">>)>>,
                    <<P(14, <<"{LANGUAGES}">>)>> >>) >>,
       << Row(7, << <<P(15, <<"{COMPANYNAME}">>)>>,
                    <<P(16, <<"{DURATION}">>)>> >>),
          Row(8, << <<P(17, <<"{JOBTITLE}">>)>>,
                    <<P(18, <<"{JOBDESCRIPTION}">>),
                      P(19, <<"{ACHIEVEMENTS}">>)>> >>) >> >>

\* everything in one table; the achievements paragraph is followed by others
TemplateB ==
    << << Row(1, << <<P(1, <<"{NAME}">>), P(2, <<"{EMAIL}">>)>> >>),
          Row(2, << <<Para(3, "Body", <<Run(<<"{DEGREE}">>, TRUE),
                                        Run(<<", ", "{INSTITUTION}">>, FALSE)>>)>>,
                    <<P(4, <<"{EDUYEAR}", " / ", "{CGPA}">>)>> >>),
          Row(3, << <<P(5, <<"Experience">>)>> >>),
          Row(4, << <<P(6, <<"{COMPANYNAME}", " ", "{JOBTITLE}">>),
                      P(7, <<"{DURATION}">>)>>,
                    <<P(8, <<"{ACHIEVEMENTS}">>), P(9, <<"Duties">>),
                      P(10, <<"{JOBDESCRIPTION}">>), P(11, <<"Notes">>)>> >>),
          Row(5, << <<P(12, <<"{SKILLS}">>), P(13, <<"{LANGUAGES}">>)>> >>) >> >>

\* the blocks of both categories appear in two tables each
TemplateC ==
    << << Row(1, << <<P(1, <<"{DEGREE}">>)>>, <<P(2, <<"{CGPA}">>)>> >>) >>,
       << Row(2, << <<P(3, <<"More education">>)>> >>),
          Row(3, << <<P(4, <<"{DEGREE}">>)>>,
                    <<P(5, <<"{INSTITUTION}">>)>> >>) >>,
       << Row(4, << <<P(6, <<"{COMPANYNAME}">>)>>,
                    <<P(7, <<"{JOBDESCRIPTION}">>)>> >>) >>,
       << Row(5, << <<P(8, <<"{JOBTITLE}">>)>>,
                    <<P(9, <<"{ACHIEVEMENTS}">>)>> >>) >> >>

\* the template rows of a block are not contiguous
TemplateD ==
    << << Row(1, << <<P(1, <<"{DEGREE}">>)>> >>),
          Row(2, << <<P(2, <<"at ", "{NAME}">>)>> >>),
          Row(3, << <<P(3, <<"{EDUYEAR}">>), P(4, <<"{CGPA}">>)>> >>),
          Row(4, << <<P(5, <<"end">>)>> >>) >>,
       << Row(5, << <<P(6, <<"{COMPANYNAME}">>)>> >>),
          Row(6, << <<P(7, <<"{SUMMARY}">>)>> >>),
          Row(7, << <<Para(8, "List", <<Run(<<"{JOBDESCRIPTION}">>, TRUE)>>)>> >>) >> >>

\* no repeating block at all
TemplateE ==
    << << Row(1, << <<P(1, <<"{NAME}">>)>>,
                    <<P(2, <<"Skills: ", "{SKILLS}">>)>> >>) >> >>

\* two list tokens share a paragraph
TemplateF ==
    << << Row(1, << <<Para(1, "Body", <<Run(<<"{SKILLS}">>, FALSE),
                                        Run(<<"{LANGUAGES}">>, FALSE)>>)>> >>) >>,
       << Row(2, << <<P(2, <<"{JOBTITLE}">>)>>,
                    <<P(3, <<"{JOBDESCRIPTION}", "{ACHIEVEMENTS}">>)>> >>) >> >>

Templates == {TemplateA, TemplateB, TemplateC, TemplateD, TemplateE, TemplateF}

RowIds(d) == UNION {{d[t][r].rid : r \in DOMAIN d[t]} : t \in DOMAIN d}
Max(S) == CHOOSE m \in S : \A x \in S : x <= m
\* an identity no row of the document has
FreshId(d) == Max(RowIds(d) \cup {0}) + 1

(***************************************************************************)
(* Structured data, as the AI step returns it.                             *)
(***************************************************************************)
Kinds == {"str", "null", "absent"}
ScalarFields == {"name", "contact_number", "email", "nationality", "summary"}
EduFields == {"degree", "institution", "year", "cgpa"}
WorkFields == {"company_name", "duration", "job_title"}

\* the text of field k of entry i
FieldText(k, i) == <<k, Digit[i]>>
ItemText(k, i, j) == <<k, Digit[i], Digit[j]>>

Scalars(kind, keys, i) ==
    [k \in (IF kind = "absent" THEN {} ELSE keys) |->
        IF kind = "null" THEN None ELSE JStr(FieldText(k, i))]

Items(k, i, n) == JList([j \in 1..n |-> JStr(ItemText(k, i, j))])

EduEntry(kind, i) == JObj(Scalars(kind, EduFields, i))

WorkEntry(kind, i, nj, na) ==
    JObj(Scalars(kind, WorkFields, i)
         @@ (IF kind = "absent"
             THEN [k \in {} |-> None]
             ELSE [k \in {"job_description", "achievements"} |->
                    IF k = "job_description"
                    THEN (IF kind = "null" /\ nj = 0 THEN None
                          ELSE Items("duty", i, nj))
                    ELSE Items("won", i, na)]))

\* numbers of duties, achievements and skills
ItemProfiles ==
    {<<0, 0, 0>>}
    \cup {<<n, n, n>> : n \in 1..MaxItems}
    \cup {<<n, 0, n>> : n \in 1..MaxItems}
    \cup {<<0, n, n>> : n \in 1..MaxItems}
    \cup {<<n, n, 0>> : n \in 1..MaxItems}

MkData(kind, ne, nw, prof) ==
    JObj(Scalars(kind, ScalarFields, 1)
         @@ [k \in (IF kind = "absent" /\ ne = 0 THEN {} ELSE {"education"}) |->
                JList([i \in 1..ne |-> EduEntry(kind, i)])]
         @@ [k \in (IF kind = "absent" /\ nw = 0 THEN {} ELSE {"work_experience"}) |->
                JList([i \in 1..nw |-> WorkEntry(kind, i, prof[1], prof[2])])]
         @@ [k \in (IF kind = "absent" THEN {} ELSE {"skills", "languages"}) |->
                IF k = "skills" THEN Items("skill", 1, prof[3])
                ELSE Items("lang", 1, (prof[3] + 1) % 2)])

RegularData ==
    {MkData(kind, ne, nw, prof) :
        kind \in Kinds, ne \in 0..MaxEdu, nw \in 0..MaxWork,
        prof \in ItemProfiles}

With(d, key, v) == JObj([k \in DOMAIN d.f \cup {key} |-> IF k = key THEN v ELSE d.f[k]])

BaseData == MkData("str", 1, 1, <<1, 1, 1>>)

\* an object of two keys, to be taken in either order
TwoKeys == JObj([key \in {"first", "second"} |-> JStr(<<"v">>)])

\* data with null lists and null items, and with an empty string or object
\* in the place of a list
DefectData ==
    { With(BaseData, "education", None),
      With(BaseData, "education", JStr(<<>>)),
      With(BaseData, "education", EmptyObj),
      With(BaseData, "work_experience", JStr(<<>>)),
      With(BaseData, "work_experience", EmptyObj),
      With(BaseData, "education", JStr(<<"B", "A">>)),
      With(BaseData, "work_experience", JObj([company_name |-> JStr(<<"c">>)])),
      With(BaseData, "skills", Ordered(TwoKeys, <<"first", "second">>)),
      With(BaseData, "skills", Ordered(TwoKeys, <<"second", "first">>)),
      With(BaseData, "education", JList(<<None>>)),
      With(BaseData, "work_experience", None),
      With(BaseData, "work_experience", JList(<<None>>)),
      With(BaseData, "skills", None),
      With(BaseData, "skills", JList(<<JStr(<<"skill">>), None>>)),
      With(BaseData, "languages", JList(<<None>>)),
      With(BaseData, "work_experience",
           JList(<<With(WorkEntry("str", 1, 1, 1), "achievements",
                        JList(<<None>>))>>)),
      With(BaseData, "work_experience",
           JList(<<With(WorkEntry("str", 1, 1, 1), "job_description",
                        JList(<<None>>))>>)) }

PopulateData == RegularData \cup DefectData

(***************************************************************************)
(* generate_resume as steps.                                               *)
(***************************************************************************)
NoBuffer == None
Buffer(d) == [k |-> "buf", doc |-> d]

appVars == <<upload, submitted, extracted_text, ocrCalls, ocrPath>>
bulletVars == <<cell, cell0, bkey, bitems, bpar>>
loopVars == <<tbl, tmpl, ei, ri, nextId, scanDoc>>

Raise ==
    /\ pc' = "raised"
    /\ UNCHANGED <<template, parsed_data, generated_doc_buffer, doc, loopVars,
                   stages, appVars, bulletVars>>

\* lines 110-114: Document(template_path)
GenOpen ==
    /\ pc = "open"
    /\ stages' = Append(stages, "population")
    /\ \E ok \in BOOLEAN :
        IF ok
        THEN /\ doc' = template
             /\ nextId' = FreshId(template)
             /\ pc' = "simple"
             /\ UNCHANGED generated_doc_buffer
        ELSE /\ generated_doc_buffer' = NoBuffer
             /\ pc' = "present"
             /\ UNCHANGED <<doc, nextId>>
    /\ UNCHANGED <<template, parsed_data, tbl, tmpl, ei, ri, scanDoc,
                   appVars, bulletVars>>

\* lines 116-134
Simple ==
    /\ pc = "simple"
    /\ doc' = SimpleStage(doc, parsed_data)
    /\ pc' = "edu_scan"
    /\ UNCHANGED <<template, parsed_data, generated_doc_buffer, loopVars,
                   stages, appVars, bulletVars>>

ClonePc(cat) == IF cat = "edu" THEN "edu_clone" ELSE "work_clone"
RemovePc(cat) == IF cat = "edu" THEN "edu_remove" ELSE "work_remove"
ScanPc(cat) == IF cat = "edu" THEN "edu_scan" ELSE "work_scan"
AfterPc(cat) == IF cat = "edu" THEN "lists" ELSE "save"

\* lines 141-151, 196-206: find the table and its template rows
BlockScan(cat) ==
    /\ pc = ScanPc(cat)
    /\ LET t == FirstTemplateTable(doc, Placeholders(cat)) IN
        IF t = 0
        THEN /\ pc' = AfterPc(cat)
             /\ UNCHANGED <<tbl, tmpl, ei, ri>>
        ELSE /\ tbl' = [tbl EXCEPT ![cat] = t]
             /\ tmpl' = [tmpl EXCEPT ![cat] = TemplateRows(doc[t], Placeholders(cat))]
             /\ ei' = 1
             /\ ri' = 1
             /\ pc' = ClonePc(cat)
    /\ scanDoc' = [scanDoc EXCEPT ![cat] = doc]
    /\ UNCHANGED <<template, parsed_data, generated_doc_buffer, doc, nextId,
                   stages, appVars, bulletVars>>

CloneInto_InPlace(cat, table, rid, id, e, experience) ==
    LET res == PopulateRow(cat, RowById(table, rid), experience)
        i == CHOOSE i \in DOMAIN table : table[i].rid = rid
    IN [table |-> Append([table EXCEPT ![i] = res.row],
                         deepcopy(res.row, id, e)),
        raised |-> res.raised]

\* the table with one more clone of template row r for entry e appended
\* (lines 156-158, 210-212) and populated
CloneInto(cat, table, rid, id, e, experience) ==
    LET res == PopulateRow(cat, deepcopy(RowById(table, rid), id, e), experience)
    IN [table |-> Append(table, res.row), raised |-> res.raised]

\* lines 154-166, 208-226: one turn of the two nested loops
BlockClone(cat) ==
    /\ pc = ClonePc(cat)
    /\ LET entries == Get(parsed_data, ListField(cat), JList(<<>>)) IN
        IF ~Iterable(entries)
        THEN Raise                      \* iterating None raises TypeError
        ELSE IF ei > Len(IterItems(entries))
        THEN /\ pc' = RemovePc(cat)
             /\ ri' = Len(tmpl[cat])
             /\ UNCHANGED <<template, parsed_data, generated_doc_buffer, doc,
                            tbl, tmpl, ei, nextId, scanDoc, stages, appVars,
                            bulletVars>>
        ELSE LET res == CloneInto(cat, doc[tbl[cat]], tmpl[cat][ri], nextId,
                                  ei, IterItems(entries)[ei])
             IN IF res.raised
                THEN Raise
                ELSE /\ doc' = [doc EXCEPT ![tbl[cat]] = res.table]
                     /\ nextId' = nextId + 1
                     /\ IF ri < Len(tmpl[cat])
                        THEN ri' = ri + 1 /\ ei' = ei
                        ELSE ri' = 1 /\ ei' = ei + 1
                     /\ pc' = pc
                     /\ UNCHANGED <<template, parsed_data, generated_doc_buffer,
                                    tbl, tmpl, scanDoc, stages, appVars,
                                    bulletVars>>

\* lines 169-174, 228-233: for template_row in reversed(template_rows)
BlockRemove(cat) ==
    /\ pc = RemovePc(cat)
    /\ doc' = [doc EXCEPT ![tbl[cat]] = RemoveRow(@, tmpl[cat][ri])]
    /\ ri' = ri - 1
    /\ pc' = IF ri = 1 THEN AfterPc(cat) ELSE pc
    /\ UNCHANGED <<template, parsed_data, generated_doc_buffer, tbl, tmpl, ei,
                   nextId, scanDoc, stages, appVars, bulletVars>>

EduScan == BlockScan("edu")
EduClone == BlockClone("edu")
EduRemove == BlockRemove("edu")

\* lines 176-188
Lists ==
    /\ pc = "lists"
    /\ LET res == ListStage(doc, parsed_data) IN
        IF res.raised
        THEN Raise
        ELSE /\ doc' = res.doc
             /\ pc' = "work_scan"
             /\ UNCHANGED <<template, parsed_data, generated_doc_buffer,
                            loopVars, stages, appVars, bulletVars>>

WorkScan == BlockScan("work")
WorkClone == BlockClone("work")
WorkRemove == BlockRemove("work")

\* lines 236-243: doc.save into the buffer generate_resume returns
Save ==
    /\ pc = "save"
    /\ \E ok \in BOOLEAN :
        generated_doc_buffer' = IF ok THEN Buffer(doc) ELSE NoBuffer
    /\ pc' = "present"
    /\ UNCHANGED <<template, parsed_data, doc, loopVars, stages, appVars,
                   bulletVars>>

Generate ==
    \/ GenOpen \/ Simple \/ EduScan \/ EduClone \/ EduRemove \/ Lists
    \/ WorkScan \/ WorkClone \/ WorkRemove \/ Save

NoFile == [name |-> <<>>]
NoLoop == [c \in Cats |-> 0]
NoRows == [c \in Cats |-> <<>>]
NoScan == [c \in Cats |-> <<>>]

\* generate_resume called on every template with every data
InitPopulate ==
    /\ pc = "open"
    /\ template \in Templates
    /\ parsed_data \in PopulateData
    /\ generated_doc_buffer = NoBuffer
    /\ doc = <<>>
    /\ tbl = NoLoop /\ tmpl = NoRows /\ scanDoc = NoScan
    /\ ei = 0 /\ ri = 0 /\ nextId = 0
    /\ upload = NoFile /\ submitted = TRUE /\ extracted_text = None
    /\ ocrCalls = 0 /\ ocrPath = FALSE
    /\ stages = <<>>
    /\ cell = <<>> /\ cell0 = <<>> /\ bkey = "" /\ bitems = None /\ bpar = 0

SpecPopulate == InitPopulate /\ [][Generate]_vars


(***************************************************************************)
(* replace_with_bullet_points called on one paragraph of one cell.         *)
(***************************************************************************)
BulletKeys == {"{SKILLS}", "{LANGUAGES}", "{JOBDESCRIPTION}", AchievementsKey}

BulletCells(key) ==
    { << P(1, <<key>>) >>,
      << P(1, <<"Before">>), P(2, <<key>>), P(3, <<"After">>) >>,
      << P(1, <<"Intro">>),
         Para(2, "List", <<Run(<<"Label: ">>, FALSE), Run(<<key>>, TRUE),
                           Run(<<key, "!">>, FALSE)>>) >>,
      << P(1, <<key, " and ", key>>), P(2, <<"{OTHER}">>) >> }

BulletItems ==
    {None}
    \cup {Items("item", 1, n) : n \in 0..MaxItems}
    \cup {JList(Append(Items("item", 1, n).xs, None)) : n \in 0..MaxItems}

InitBullets ==
    /\ pc = "call"
    /\ bkey \in BulletKeys
    /\ cell0 \in BulletCells(bkey)
    /\ bpar \in DOMAIN cell0
    /\ bitems \in BulletItems
    /\ cell = cell0
    /\ template = <<>> /\ parsed_data = None
    /\ generated_doc_buffer = NoBuffer
    /\ doc = <<>>
    /\ tbl = NoLoop /\ tmpl = NoRows /\ scanDoc = NoScan
    /\ ei = 0 /\ ri = 0 /\ nextId = 0
    /\ upload = NoFile /\ submitted = FALSE /\ extracted_text = None
    /\ ocrCalls = 0 /\ ocrPath = FALSE
    /\ stages = <<>>

BulletCall ==
    /\ pc = "call"
    /\ LET ctx == replace_with_bullet_points(Ctx(cell[bpar]), bkey, bitems) IN
        /\ cell' = CellAfter(cell, bpar, ctx)
        /\ pc' = IF ctx.raised THEN "raised" ELSE "returned"
    /\ UNCHANGED <<template, parsed_data, generated_doc_buffer, doc, loopVars,
                   stages, appVars, cell0, bkey, bitems, bpar>>

SpecBullets == InitBullets /\ [][BulletCall]_vars

(***************************************************************************)
(* replace_with_multiline_text called on one paragraph of one cell.        *)
(***************************************************************************)
MultilineTexts ==
    { <<>>, <<"first">>, <<"first", Newline, "second">>,
      <<Newline, "second", Newline>>, <<"a", Newline, Newline, "b">> }

InitMultiline ==
    /\ pc = "call"
    /\ bkey \in BulletKeys
    /\ cell0 \in BulletCells(bkey)
    /\ bpar \in DOMAIN cell0
    /\ bitems \in {JStr(text) : text \in MultilineTexts}
    /\ cell = cell0
    /\ template = <<>> /\ parsed_data = None
    /\ generated_doc_buffer = NoBuffer
    /\ doc = <<>>
    /\ tbl = NoLoop /\ tmpl = NoRows /\ scanDoc = NoScan
    /\ ei = 0 /\ ri = 0 /\ nextId = 0
    /\ upload = NoFile /\ submitted = FALSE /\ extracted_text = None
    /\ ocrCalls = 0 /\ ocrPath = FALSE
    /\ stages = <<>>

MultilineCall ==
    /\ pc = "call"
    /\ cell' = [cell EXCEPT ![bpar] =
                    replace_with_multiline_text(@, bkey, bitems.s)]
    /\ pc' = "returned"
    /\ UNCHANGED <<template, parsed_data, generated_doc_buffer, doc, loopVars,
                   stages, appVars, cell0, bkey, bitems, bpar>>

SpecMultiline == InitMultiline /\ [][MultilineCall]_vars

\* the call returned after expanding a non-empty list on a paragraph holding the key
Expanded ==
    /\ pc = "returned"
    /\ Truthy(bitems)
    /\ ContainsKey(ParagraphText(cell0[bpar]), bkey)

\* the paragraphs of the cell other than the placeholder, in their order
Others == SubSeq(cell0, 1, bpar - 1) \o SubSeq(cell0, bpar + 1, Len(cell0))

\* C4: expanding {ACHIEVEMENTS} with a non-empty list leaves, after the other
\* paragraphs of the cell and with nothing in between, the bold
\* "Achievements:" header, one "U+2022 item" paragraph per item in list order
\* and one empty paragraph; the placeholder paragraph is gone.
C4_AchievementsLayout ==
    (Expanded /\ bkey = AchievementsKey) =>
        LET n == Len(bitems.xs)
            m == Len(Others)
        IN /\ Len(cell) = m + n + 2
           /\ SubSeq(cell, 1, m) = Others
           /\ cell[m + 1].runs = <<Run(<<"Achievements:">>, TRUE)>>
           /\ \A j \in 1..n :
                ParagraphText(cell[m + 1 + j]) = <<BulletPrefix>> \o bitems.xs[j].s
           /\ cell[m + n + 2].runs = <<>>
           /\ \A i \in DOMAIN cell :
                /\ cell[i].pid # cell0[bpar].pid
                /\ ~ContainsKey(ParagraphText(cell[i]), AchievementsKey)

C4_Witness ==
    /\ Expanded
    /\ bkey = AchievementsKey
    /\ Len(bitems.xs) = MaxItems
    /\ Len(cell0) = 3
    /\ Len(cell) = 4 + MaxItems

\* the bullet paragraphs of the cell
BulletsIn(c) ==
    SelectSeq(c, LAMBDA p : p.pid = 0 /\ ParagraphText(p) # <<>>
                            /\ Head(ParagraphText(p)) = BulletPrefix)

\* C5 as stated: with items x1..xn, n >= 1, on any list key the placeholder
\* paragraph is removed and exactly n new paragraphs "U+2022 x1" ...
\* "U+2022 xn" are in the cell, in list order.
C5_ExactlyN ==
    (Expanded /\ bitems.k = "list") =>
        LET n == Len(bitems.xs)
            m == Len(Others)
        IN /\ \A i \in DOMAIN cell : cell[i].pid # cell0[bpar].pid
           /\ Len(cell) = m + n
           /\ SubSeq(cell, 1, m) = Others
           /\ \A j \in 1..n :
                ParagraphText(cell[m + j]) = <<BulletPrefix>> \o bitems.xs[j].s

\* C5, amended: with items x1..xn, n >= 1, the placeholder paragraph is removed,
\* the other paragraphs of the cell stay and the new paragraphs follow them:
\* for a key other than {ACHIEVEMENTS} exactly n, "U+2022 x1" ... "U+2022 xn"
\* in list order; for {ACHIEVEMENTS} exactly n + 2, the same n bullets between
\* the "Achievements:" header and an empty paragraph.  With an empty (or null)
\* list the paragraph stays where it was and only the token is replaced by the
\* empty string.
C5_BulletContent ==
    (pc = "returned" /\ ContainsKey(ParagraphText(cell0[bpar]), bkey)) =>
        IF Truthy(bitems)
        THEN LET n == Len(bitems.xs)
                 m == Len(Others)
                 h == IF bkey = AchievementsKey THEN 1 ELSE 0
             IN /\ \A i \in DOMAIN cell : cell[i].pid # cell0[bpar].pid
                /\ BulletsIn(cell) # <<>>
                /\ [j \in DOMAIN BulletsIn(cell) |-> ParagraphText(BulletsIn(cell)[j])]
                       = [j \in DOMAIN bitems.xs |-> <<BulletPrefix>> \o bitems.xs[j].s]
                /\ Len(cell) = m + n + 2 * h
                /\ SubSeq(cell, 1, m) = Others
                /\ \A j \in 1..n :
                     ParagraphText(cell[m + h + j])
                        = <<BulletPrefix>> \o bitems.xs[j].s
                /\ bkey = AchievementsKey =>
                     /\ ParagraphText(cell[m + 1]) = <<"Achievements:">>
                     /\ ParagraphText(cell[m + n + 2]) = <<>>
        ELSE /\ Len(cell) = Len(cell0)
             /\ \A i \in DOMAIN cell0 : i # bpar => cell[i] = cell0[i]
             /\ cell[bpar].pid = cell0[bpar].pid
             /\ ParagraphText(cell[bpar])
                    = SelectSeq(ParagraphText(cell0[bpar]), LAMBDA a : a # bkey)

C5_Witness ==
    /\ Expanded
    /\ bkey = "{SKILLS}"
    /\ Len(bitems.xs) = MaxItems
    /\ Len(cell) = Len(cell0) - 1 + MaxItems

\* C10: the "Achievements:" header takes the place of the placeholder
\* paragraph: what preceded the placeholder precedes the header and what
\* followed the placeholder in the cell follows the header.
C10_HeaderAtPlaceholder ==
    (Expanded /\ bkey = AchievementsKey) =>
        /\ SubSeq(cell, 1, bpar - 1) = SubSeq(cell0, 1, bpar - 1)
        /\ cell[bpar].runs = <<Run(<<"Achievements:">>, TRUE)>>
        /\ \A i \in (bpar + 1)..Len(cell0) :
             \E k \in (bpar + 1)..Len(cell) : cell[k] = cell0[i]


(***************************************************************************)
(* Properties of generate_resume (SpecPopulate).                           *)
(***************************************************************************)
Range(f) == {f[i] : i \in DOMAIN f}

\* the positions after the block of a category was expanded
DonePcs(cat) ==
    IF cat = "edu"
    THEN {"lists", "work_scan", "work_clone", "work_remove", "save", "present"}
    ELSE {"save", "present"}

\* read off the template: the first table with a row holding a token of the
\* category, and the identities of those rows in table order
HoldsToken(row, cat) == \E ph \in Placeholders(cat) : ContainsKey(RowText(row), ph)
BlockTable(d, cat) ==
    CHOOSE t \in DOMAIN d :
        /\ \E r \in DOMAIN d[t] : HoldsToken(d[t][r], cat)
        /\ \A u \in 1..(t - 1) : \A r \in DOMAIN d[u] : ~HoldsToken(d[u][r], cat)
HasBlock(d, cat) == \E t \in DOMAIN d : \E r \in DOMAIN d[t] : HoldsToken(d[t][r], cat)
BlockRows(d, cat) ==
    LET hit == SelectSeq(d[BlockTable(d, cat)], LAMBDA r : HoldsToken(r, cat))
    IN [i \in DOMAIN hit |-> hit[i].rid]

Entries(cat) == IterItems(Get(parsed_data, ListField(cat), JList(<<>>)))

\* the rows of a table cloned from the given rows
ClonesOf(table, rids) == SelectSeq(table, LAMBDA r : r.src \in Range(rids))

\* C1: after the education block was expanded, the table holds exactly N*R
\* rows cloned from the R template rows, entry by entry and inside an entry in
\* template-row order, none holds an education token, and the R template rows
\* are gone (N = 0 leaves no row of the block).
C1_EducationRows ==
    (pc \in DonePcs("edu") /\ doc # <<>> /\ HasBlock(template, "edu")) =>
        LET t == BlockTable(template, "edu")
            rows == BlockRows(template, "edu")
            R == Len(rows)
            N == Len(Entries("edu"))
            clones == ClonesOf(doc[t], rows)
        IN /\ Len(clones) = N * R
           /\ \A e \in 1..N : \A r \in 1..R :
                /\ clones[(e - 1) * R + r].ent = e
                /\ clones[(e - 1) * R + r].src = rows[r]
           /\ \A i \in DOMAIN clones : ~HoldsToken(clones[i], "edu")
           /\ \A r \in 1..R : ~HasRow(doc[t], rows[r])
           /\ N = 0 => \A i \in DOMAIN doc[t] : ~HoldsToken(doc[t][i], "edu")

C1_Witness ==
    /\ pc = "present"
    /\ Truthy(generated_doc_buffer)
    /\ HasBlock(template, "edu")
    /\ Len(BlockRows(template, "edu")) = 2
    /\ Len(Entries("edu")) = MaxEdu
    /\ Len(ClonesOf(doc[BlockTable(template, "edu")],
                    BlockRows(template, "edu"))) = 2 * MaxEdu

\* the scalar placeholders of the entries of a category and their fields
EntryKeys(cat) ==
    IF cat = "edu"
    THEN << <<"{DEGREE}", "degree">>, <<"{INSTITUTION}", "institution">>,
            <<"{EDUYEAR}", "year">>, <<"{CGPA}", "cgpa">> >>
    ELSE << <<"{COMPANYNAME}", "company_name">>, <<"{DURATION}", "duration">>,
            <<"{JOBTITLE}", "job_title">> >>

Missing(obj, field) == field \notin DOMAIN obj.f \/ IsNone(obj.f[field])

AllRows(d) == UNION {Range(d[t]) : t \in DOMAIN d}

\* C2: a scalar placeholder whose field is null or absent leaves the empty
\* string: the output holds neither the token nor the word "None"/"null", for
\* the top-level fields and for the fields of every education and work entry.
C2_NullIsEmpty ==
    (pc = "present" /\ Truthy(generated_doc_buffer)) =>
        LET out == generated_doc_buffer.doc IN
        /\ \A row \in AllRows(out) :
            /\ \A i \in DOMAIN SimpleKeys :
                Missing(parsed_data, SimpleKeys[i][2])
                    => ~ContainsKey(RowText(row), SimpleKeys[i][1])
            /\ row.ent = 0 => /\ ~ContainsKey(RowText(row), "None")
                              /\ ~ContainsKey(RowText(row), "null")
        /\ \A cat \in Cats :
            HasBlock(template, cat) =>
                \A row \in Range(ClonesOf(out[BlockTable(template, cat)],
                                          BlockRows(template, cat))) :
                    \A i \in DOMAIN EntryKeys(cat) :
                        Missing(Entries(cat)[row.ent], EntryKeys(cat)[i][2])
                            => /\ ~ContainsKey(RowText(row), EntryKeys(cat)[i][1])
                               /\ ~ContainsKey(RowText(row), "None")
                               /\ ~ContainsKey(RowText(row), "null")

\* C8: while and right after the block of a category is expanded, the table
\* worked on is the first one (in document order) that held a token of the
\* category when the stage began, and every other table, also a later one
\* holding such tokens, is as it was when the stage began.
StagePcs(cat) ==
    IF cat = "edu" THEN {"edu_clone", "edu_remove", "lists"}
    ELSE {"work_clone", "work_remove", "save", "present"}

C8_FirstTableOnly ==
    \A cat \in Cats :
        (pc \in StagePcs(cat) /\ tbl[cat] # 0) =>
            /\ HasBlock(scanDoc[cat], cat)
            /\ tbl[cat] = BlockTable(scanDoc[cat], cat)
            /\ \A t \in DOMAIN doc : t # tbl[cat] => doc[t] = scanDoc[cat][t]

C8_Witness ==
    /\ pc = "lists"
    /\ tbl["edu"] # 0
    /\ Len(Entries("edu")) = MaxEdu
    /\ Len(doc[tbl["edu"]]) = MaxEdu
    /\ \E t \in DOMAIN doc :
        /\ t > tbl["edu"]
        /\ \E r \in DOMAIN doc[t] : HoldsToken(doc[t][r], "edu")

\* the row shows data of entry e: a field name followed by the entry's number
FieldNames ==
    EduFields \cup WorkFields \cup {"duty", "won"}
Mentions(row, e) ==
    \E i \in DOMAIN RowText(row) :
        /\ i < Len(RowText(row))
        /\ RowText(row)[i] \in FieldNames
        /\ RowText(row)[i + 1] = Digit[e]

\* C9: the expansion of a block is two-phase.  While clones are made every
\* template row is still in the table and still as it was scanned, the clones
\* made so far are those of the entries and template rows already visited,
\* each free of the category's tokens and showing no other entry's data; a
\* template row is removed only when all N*R clones exist, last row first,
\* and after the stage none is left.
C9_TwoPhase ==
    \A cat \in Cats :
        tbl[cat] # 0 =>
            LET table == doc[tbl[cat]]
                R == Len(tmpl[cat])
                clones == ClonesOf(table, tmpl[cat])
            IN /\ pc = ClonePc(cat) =>
                    /\ \A r \in 1..R :
                        /\ HasRow(table, tmpl[cat][r])
                        /\ RowById(table, tmpl[cat][r])
                             = RowById(scanDoc[cat][tbl[cat]], tmpl[cat][r])
                        /\ HoldsToken(RowById(table, tmpl[cat][r]), cat)
                    /\ Len(clones) = (ei - 1) * R + (ri - 1)
                    /\ \A i \in DOMAIN clones :
                        /\ ~HoldsToken(clones[i], cat)
                        /\ \A e \in 1..Len(Entries(cat)) :
                            Mentions(clones[i], e) => e = clones[i].ent
               /\ pc = RemovePc(cat) =>
                    /\ Len(clones) = Len(Entries(cat)) * R
                    /\ \A r \in 1..R : HasRow(table, tmpl[cat][r]) <=> r <= ri
               /\ (pc = AfterPc(cat)) =>
                    /\ Len(clones) = Len(Entries(cat)) * R
                    /\ \A r \in 1..R : ~HasRow(table, tmpl[cat][r])

C9_Witness ==
    /\ pc = "work_remove"
    /\ ri = 1
    /\ Len(tmpl["work"]) = 2
    /\ Len(Entries("work")) = MaxWork
    /\ Len(ClonesOf(doc[tbl["work"]], tmpl["work"])) = 2 * MaxWork
    /\ \E i \in DOMAIN doc[tbl["work"]] :
        /\ doc[tbl["work"]][i].ent = MaxWork
        /\ Mentions(doc[tbl["work"]][i], MaxWork)


(***************************************************************************)
(* Text acquisition (Text_Extraction.py).  An uploaded file is described   *)
(* by what its readers do with it: name is its file name, a sequence of    *)
(* characters; directThrows tells whether the direct extraction raises and *)
(* direct is the text it yields otherwise; ocr is the OCR result of each   *)
(* embedded image (docx), page (pdf) or of the image itself; ocrThrows     *)
(* tells whether the OCR path raises and raiseAt how many image_to_string  *)
(* calls were made when it does (0: Document, convert_from_bytes or        *)
(* Image.open raised before any call).                                     *)
(***************************************************************************)
MinTextLen == 100

\* the characters str.strip() removes (those with str.isspace())
Whitespace ==
    {" ", Newline, "\t", "\r", "\f", "U+000B", "U+001C", "U+001D", "U+001E",
     "U+001F", "U+0085", "U+00A0", "U+1680", "U+2000", "U+2001", "U+2002",
     "U+2003", "U+2004", "U+2005", "U+2006", "U+2007", "U+2008", "U+2009",
     "U+200A", "U+2028", "U+2029", "U+202F", "U+205F", "U+3000"}

\* text.strip()
RECURSIVE LStrip(_)
LStrip(text) ==
    IF text # <<>> /\ Head(text) \in Whitespace THEN LStrip(Tail(text)) ELSE text
RECURSIVE RStrip(_)
RStrip(text) ==
    IF text # <<>> /\ text[Len(text)] \in Whitespace
    THEN RStrip(SubSeq(text, 1, Len(text) - 1)) ELSE text
Strip(text) == RStrip(LStrip(text))

\* the text the direct extraction yields
DirectText(f) == f.direct

DirectAccepted_AtLeast(text) == text # <<>> /\ Len(Strip(text)) >= MinTextLen

\* lines 54, 91: if text and len(text.strip()) > 100
DirectAccepted(text) == text # <<>> /\ Len(Strip(text)) > MinTextLen

Result(text, calls, ocr) == [text |-> text, calls |-> calls, ocr |-> ocr]

\* the calls of image_to_string made when the OCR path raises
CallsBeforeRaise(f) == f.raiseAt

\* lines 36-84
read_docx_hybrid(f) ==
    IF ~f.directThrows /\ DirectAccepted(DirectText(f))
    THEN Result(JStr(DirectText(f)), 0, FALSE)
    ELSE IF f.ocrThrows THEN Result(None, CallsBeforeRaise(f), TRUE)
    ELSE IF f.ocr # <<>>
    THEN Result(JStr(Join(<<Newline>>, f.ocr)), Len(f.ocr), TRUE)
    ELSE Result(JStr(<<>>), 0, TRUE)

\* lines 102-105: full_ocr_text += image_to_string(image) + "\n"
RECURSIVE PagesText(_)
PagesText(pages) ==
    IF pages = <<>> THEN <<>>
    ELSE Head(pages) \o <<Newline>> \o PagesText(Tail(pages))

\* lines 86-111
read_pdf_hybrid(f) ==
    IF ~f.directThrows /\ DirectAccepted(DirectText(f))
    THEN Result(JStr(DirectText(f)), 0, FALSE)
    ELSE IF f.ocrThrows THEN Result(None, CallsBeforeRaise(f), TRUE)
    ELSE Result(JStr(PagesText(f.ocr)), Len(f.ocr), TRUE)

\* lines 113-116; an exception is caught by read_file (lines 32-34)
read_image(f) ==
    IF f.ocrThrows THEN Result(None, CallsBeforeRaise(f), FALSE)
    ELSE Result(JStr(f.ocr[1]), 1, FALSE)

UpperCase ==
    <<"A", "B", "C", "D", "E", "F", "G", "H", "I", "J", "K", "L", "M",
      "N", "O", "P", "Q", "R", "S", "T", "U", "V", "W", "X", "Y", "Z">>
LowerCase ==
    <<"a", "b", "c", "d", "e", "f", "g", "h", "i", "j", "k", "l", "m",
      "n", "o", "p", "q", "r", "s", "t", "u", "v", "w", "x", "y", "z">>

\* what lower() makes of a character, as far as a suffix of lines 22-27 can
\* tell: A-Z become a-z, and no other character becomes a character of ".docx",
\* ".pdf", ".png", ".jpg" or ".jpeg"
SuffixChar(c) ==
    IF \E i \in DOMAIN UpperCase : UpperCase[i] = c
    THEN LowerCase[CHOOSE i \in DOMAIN UpperCase : UpperCase[i] = c]
    ELSE c

\* lines 21-27: uploaded_file.name.lower().endswith(suffix) for one of the
\* suffixes of read_file, the name a sequence of characters.  The last
\* characters of the lowered name are those of the name, lowered one by one.
LowerEndsWith(name, suffix) ==
    /\ Len(suffix) <= Len(name)
    /\ \A i \in DOMAIN suffix :
            SuffixChar(name[Len(name) - Len(suffix) + i]) = suffix[i]

DocxSuffix == <<".", "d", "o", "c", "x">>
PdfSuffix == <<".", "p", "d", "f">>
ImageSuffixes ==
    {<<".", "p", "n", "g">>, <<".", "j", "p", "g">>, <<".", "j", "p", "e", "g">>}

\* lines 15-34
read_file(f) ==
    IF LowerEndsWith(f.name, DocxSuffix) THEN read_docx_hybrid(f)
    ELSE IF LowerEndsWith(f.name, PdfSuffix) THEN read_pdf_hybrid(f)
    ELSE IF \E suffix \in ImageSuffixes : LowerEndsWith(f.name, suffix)
    THEN read_image(f)
    ELSE Result(None, 0, FALSE)

File(name, directThrows, direct, ocr, ocrThrows, raiseAt) ==
    [name |-> name, directThrows |-> directThrows, direct |-> direct,
     ocr |-> ocr, ocrThrows |-> ocrThrows, raiseAt |-> raiseAt]

\* the OCR results of n units; a blank unit yields the empty string
OcrTexts(n, blank) ==
    [i \in 1..n |-> IF blank THEN <<>> ELSE <<"ocr", Digit[i]>>]

\* a text of core non-blank characters between the given blanks
Padded(lead, core, trail) == lead \o [i \in 1..core |-> "x"] \o trail

DirectLens == {0, 20, MinTextLen, MinTextLen + 1, 150}

\* blanks around the text: none, spaces and newlines, the form feed pdfminer
\* writes after a page, other whitespace
Pads ==
    { <<<<>>, <<>>>>, <<<<" ">>, <<Newline>>>>, <<<<"\r">>, <<"\f">>>>,
      <<<<"U+00A0", "\t">>, <<"U+000B">>>> }

DirectTexts == {Padded(pad[1], core, pad[2]) : core \in DirectLens, pad \in Pads}

Stem == <<"c", "v">>
HybridNames ==
    { Stem \o DocxSuffix, Stem \o <<".", "D", "O", "C", "X">>,
      Stem \o PdfSuffix, <<"U+00C9", "U+0130">> \o <<".", "P", "d", "f">> }
ImageNames ==
    { Stem \o <<".", "p", "n", "g">>, Stem \o <<".", "J", "P", "G">>,
      Stem \o <<".", "j", "p", "e", "g">>, Stem \o <<".", "J", "p", "e", "g">> }
OtherNames ==
    { Stem \o <<".", "t", "x", "t">>, Stem \o <<".", "d", "o", "c">>,
      <<"d", "o", "c", "x">>, Stem \o PdfSuffix \o <<".", "b", "a", "k">>,
      Stem \o <<".", "j", "p", "U+212A">> }

HybridFiles ==
    {File(name, FALSE, direct, OcrTexts(n, blank), FALSE, 0) :
        name \in HybridNames, direct \in DirectTexts,
        n \in 0..MaxPages, blank \in BOOLEAN}
    \cup {File(name, TRUE, <<>>, OcrTexts(n, FALSE), FALSE, 0) :
        name \in HybridNames, n \in 0..MaxPages}
    \cup UNION {{File(name, dt, IF dt THEN <<>> ELSE Padded(<<>>, core, <<>>),
                      OcrTexts(n, FALSE), TRUE, at) : at \in 0..n} :
        name \in HybridNames, dt \in BOOLEAN, core \in {20, 150},
        n \in 0..MaxPages}

ImageFiles ==
    {File(name, FALSE, <<>>, OcrTexts(1, blank), FALSE, 0) :
        name \in ImageNames, blank \in BOOLEAN}
    \cup {File(name, FALSE, <<>>, OcrTexts(1, FALSE), TRUE, at) :
        name \in ImageNames, at \in 0..1}

OtherFiles == {File(name, FALSE, <<>>, <<>>, FALSE, 0) : name \in OtherNames}

Files == HybridFiles \cup ImageFiles \cup OtherFiles

\* app.py lines 77, 83, 89: the next step after read_file returned
AfterRead_Always(text) == "structure"

AfterRead(text) == IF Truthy(text) THEN "structure" ELSE "present"

\* app.py lines 73-75
ReadFile ==
    /\ pc = "read"
    /\ LET r == read_file(upload) IN
        /\ extracted_text' = r.text
        /\ ocrCalls' = r.calls
        /\ ocrPath' = r.ocr
        /\ pc' = AfterRead(r.text)
    /\ stages' = Append(stages, "acquisition")
    /\ UNCHANGED <<template, upload, submitted, parsed_data,
                   generated_doc_buffer, doc, loopVars, bulletVars>>

\* read_file called on every file
InitRead ==
    /\ pc = "read"
    /\ upload \in Files
    /\ template = <<>> /\ parsed_data = None
    /\ generated_doc_buffer = NoBuffer
    /\ doc = <<>>
    /\ tbl = NoLoop /\ tmpl = NoRows /\ scanDoc = NoScan
    /\ ei = 0 /\ ri = 0 /\ nextId = 0
    /\ submitted = TRUE /\ extracted_text = None
    /\ ocrCalls = 0 /\ ocrPath = FALSE
    /\ stages = <<>>
    /\ cell = <<>> /\ cell0 = <<>> /\ bkey = "" /\ bitems = None /\ bpar = 0

SpecRead == InitRead /\ [][ReadFile]_vars

\* a docx or pdf was read
IsDocx(f) == LowerEndsWith(f.name, DocxSuffix)
IsPdf(f) == ~IsDocx(f) /\ LowerEndsWith(f.name, PdfSuffix)
HybridRead == pc # "read" /\ (IsDocx(upload) \/ IsPdf(upload))

DirectWins ==
    /\ ~upload.directThrows
    /\ Len(Strip(DirectText(upload))) > 100

\* C6 as stated: the direct text is returned and OCR never invoked exactly
\* when the direct extraction does not throw and its trimmed text is longer
\* than 100 characters; otherwise the OCR output is returned: for pdf the page
\* results joined with newlines, for docx the image results, "" without image.
C6_AsStated ==
    (HybridRead /\ ~upload.ocrThrows) =>
        IF DirectWins
        THEN /\ extracted_text = JStr(DirectText(upload))
             /\ ocrCalls = 0 /\ ~ocrPath
        ELSE /\ ocrPath
             /\ ocrCalls = Len(upload.ocr)
             /\ extracted_text = JStr(Join(<<Newline>>, upload.ocr))

\* the OCR results in order, each followed by a newline
Terminated(parts) == Concat([i \in DOMAIN parts |-> parts[i] \o <<Newline>>])

\* C6, amended: as stated, except that for pdf every page result is followed
\* by a newline (the text ends with one), and that null is returned when the
\* OCR path itself raises.
C6_Hybrid ==
    HybridRead =>
        IF DirectWins
        THEN /\ extracted_text = JStr(DirectText(upload))
             /\ ocrCalls = 0 /\ ~ocrPath
        ELSE /\ ocrPath
             /\ IF upload.ocrThrows
                THEN extracted_text = None
                ELSE /\ ocrCalls = Len(upload.ocr)
                     /\ extracted_text =
                            IF IsPdf(upload)
                            THEN JStr(Terminated(upload.ocr))
                            ELSE JStr(Join(<<Newline>>, upload.ocr))

C6_Witness ==
    /\ HybridRead
    /\ IsPdf(upload)
    /\ ~upload.directThrows
    /\ Len(Strip(DirectText(upload))) = 20
    /\ Len(DirectText(upload)) > 20
    /\ ~upload.ocrThrows
    /\ Len(upload.ocr) = MaxPages
    /\ ocrCalls = MaxPages
    /\ extracted_text.k = "str"
    /\ extracted_text.s[Len(extracted_text.s)] = Newline


(***************************************************************************)
(* The orchestrator (app.py): one script run per user interaction.         *)
(***************************************************************************)
\* files offered to the uploader
PipelineFiles ==
    { File(Stem \o DocxSuffix, FALSE, Padded(<<" ">>, 150, <<Newline>>), <<>>,
           FALSE, 0),
      File(Stem \o DocxSuffix, FALSE, Padded(<<>>, 20, <<>>),
           OcrTexts(1, FALSE), FALSE, 0),
      File(Stem \o DocxSuffix, TRUE, <<>>, <<>>, FALSE, 0),
      File(Stem \o PdfSuffix, FALSE, Padded(<<>>, MinTextLen, <<"\f">>),
           OcrTexts(MaxPages, FALSE), FALSE, 0),
      File(Stem \o PdfSuffix, TRUE, <<>>, OcrTexts(1, FALSE), TRUE, 1),
      File(Stem \o <<".", "P", "N", "G">>, FALSE, <<>>, OcrTexts(1, FALSE),
           FALSE, 0),
      File(Stem \o <<".", "t", "x", "t">>, FALSE, <<>>, <<>>, FALSE, 0) }

\* what convert_to_json_with_gpt returns: None after a reported failure
\* (Text_Conversion.py lines 71-78), else the parsed object
AIData ==
    DefectData
    \cup {MkData(kind, 1, 1, <<1, 1, 1>>) : kind \in Kinds}
    \cup {MkData("str", MaxEdu, MaxWork, <<MaxItems, MaxItems, MaxItems>>)}
AIOutcomes == {None, EmptyObj} \cup AIData

PipelineTemplates == {TemplateA, TemplateB}

\* lines 38-45
Init ==
    /\ pc = "idle"
    /\ template \in PipelineTemplates
    /\ extracted_text = None
    /\ parsed_data = None
    /\ generated_doc_buffer = NoBuffer
    /\ upload = NoFile /\ submitted = FALSE
    /\ doc = <<>>
    /\ tbl = NoLoop /\ tmpl = NoRows /\ scanDoc = NoScan
    /\ ei = 0 /\ ri = 0 /\ nextId = 0
    /\ ocrCalls = 0 /\ ocrPath = FALSE
    /\ stages = <<>>
    /\ cell = <<>> /\ cell0 = <<>> /\ bkey = "" /\ bitems = None /\ bpar = 0

\* a script run starts: its locals are fresh
FreshRun ==
    /\ doc' = <<>>
    /\ tbl' = NoLoop /\ tmpl' = NoRows /\ scanDoc' = NoScan
    /\ ei' = 0 /\ ri' = 0 /\ nextId' = 0
    /\ ocrCalls' = 0 /\ ocrPath' = FALSE
    /\ stages' = <<>>

Submit_KeepsBuffer ==
    /\ pc \in {"idle", "raised"}
    /\ \E f \in PipelineFiles \cup {NoFile} :
        /\ upload' = f
        /\ IF f # NoFile
           THEN /\ extracted_text' = None
                /\ parsed_data' = None
                /\ pc' = "read"
           ELSE /\ UNCHANGED <<extracted_text, parsed_data>>
                /\ pc' = "present"
    /\ submitted' = TRUE
    /\ FreshRun
    /\ UNCHANGED <<template, generated_doc_buffer, bulletVars>>

\* lines 52-71: the form is submitted, with or without a file
Submit ==
    /\ pc \in {"idle", "raised"}
    /\ \E f \in PipelineFiles \cup {NoFile} :
        /\ upload' = f
        /\ IF f # NoFile
           THEN /\ extracted_text' = None
                /\ parsed_data' = None
                /\ generated_doc_buffer' = NoBuffer
                /\ pc' = "read"
           ELSE /\ UNCHANGED <<extracted_text, parsed_data, generated_doc_buffer>>
                /\ pc' = "present"
    /\ submitted' = TRUE
    /\ FreshRun
    /\ UNCHANGED <<template, bulletVars>>

\* a script run not caused by the form (another widget, a page reload)
Rerun ==
    /\ pc \in {"idle", "raised"}
    /\ submitted' = FALSE
    /\ pc' = "present"
    /\ FreshRun
    /\ UNCHANGED <<template, upload, extracted_text, parsed_data,
                   generated_doc_buffer, bulletVars>>

\* lines 83-85: the next step after convert_to_json_with_gpt returned
AfterStructure(data) == IF Truthy(data) THEN "open" ELSE "present"

\* lines 77-81
Structure ==
    /\ pc = "structure"
    /\ \E out \in AIOutcomes :
        /\ parsed_data' = out
        /\ pc' = AfterStructure(out)
    /\ stages' = Append(stages, "structuring")
    /\ UNCHANGED <<template, upload, submitted, extracted_text,
                   generated_doc_buffer, doc, loopVars, ocrCalls, ocrPath,
                   bulletVars>>

\* line 96: parsed_data.get('name', 'candidate').replace(' ', '_') raises
\* AttributeError when name is null
FileNameRaises(data) ==
    data.k # "obj" \/ Get(data, "name", JStr(<<"candidate">>)).k # "str"

\* lines 89-103
Present ==
    /\ pc = "present"
    /\ pc' = IF Truthy(generated_doc_buffer) /\ FileNameRaises(parsed_data)
             THEN "raised" ELSE "idle"
    /\ UNCHANGED <<template, upload, submitted, extracted_text, parsed_data,
                   generated_doc_buffer, doc, loopVars, ocrCalls, ocrPath,
                   stages, bulletVars>>

Next == Submit \/ Rerun \/ ReadFile \/ Structure \/ Generate \/ Present

Spec == Init /\ [][Next]_vars

\* C3: no stage lets an exception escape: read_file, convert_to_json_with_gpt
\* and generate_resume return a result or null, and presenting the generated
\* document does not raise.
C3_NoEscape == pc # "raised"

Pipeline == <<"acquisition", "structuring", "population">>

\* the file name ends, whatever its case, with a format read_file reads
Supported(f) ==
    \E suffix \in {DocxSuffix, PdfSuffix} \cup ImageSuffixes :
        LowerEndsWith(f.name, suffix)

\* the current run was started by submitting a file
Processing == submitted /\ upload # NoFile

\* C7: the stages of a submission run in the order acquisition, structuring,
\* population, each at most once; structuring runs only on a non-empty
\* extracted text and population only on non-empty parsed data; a submission
\* that did not get through all three stages has no output buffer.
C7_StageOrder ==
    /\ stages = SubSeq(Pipeline, 1, Len(stages))
    /\ Len(stages) >= 2 => Truthy(extracted_text)
    /\ Len(stages) >= 3 => Truthy(parsed_data)
    /\ (Processing /\ ~Supported(upload))
            => Len(stages) <= 1
    /\ (Processing /\ pc \notin {"read", "structure"} /\ ~Truthy(extracted_text))
            => stages = <<"acquisition">>
    /\ (Processing /\ Truthy(generated_doc_buffer)) => stages = Pipeline
    /\ (Processing /\ pc = "idle" /\ stages # Pipeline)
            => generated_doc_buffer = NoBuffer

C7_Witness ==
    /\ pc = "idle"
    /\ Processing
    /\ stages = <<"acquisition", "structuring">>
    /\ Truthy(extracted_text)
    /\ ~Truthy(parsed_data)
    /\ generated_doc_buffer = NoBuffer


(***************************************************************************)
(* The session state across script runs.                                   *)
(***************************************************************************)
Session == <<extracted_text, parsed_data, generated_doc_buffer>>

\* a downloadable document comes with the data and the text it was made from
SessionConsistent ==
    /\ Truthy(generated_doc_buffer) =>
            Truthy(parsed_data) /\ Truthy(extracted_text)
    /\ Truthy(parsed_data) => Truthy(extracted_text)

\* a submission that starts processing resets the three values
ResetStep ==
    (pc \in {"idle", "raised"} /\ pc' = "read") =>
        /\ extracted_text' = None
        /\ parsed_data' = None
        /\ generated_doc_buffer' = NoBuffer

\* within a run the values are produced in order, each from the ones before:
\* a new text only while there is neither data nor document, new data only
\* from the current text while there is no document, a new document only
\* from the current text and data
ProducedInOrder ==
    /\ (extracted_text' # extracted_text /\ extracted_text' # None) =>
            /\ parsed_data = None /\ parsed_data' = None
            /\ generated_doc_buffer = NoBuffer /\ generated_doc_buffer' = NoBuffer
    /\ (parsed_data' # parsed_data /\ parsed_data' # None) =>
            /\ extracted_text' = extracted_text /\ Truthy(extracted_text)
            /\ generated_doc_buffer = NoBuffer /\ generated_doc_buffer' = NoBuffer
    /\ (generated_doc_buffer' # generated_doc_buffer
            /\ generated_doc_buffer' # NoBuffer) =>
            /\ extracted_text' = extracted_text /\ Truthy(extracted_text)
            /\ parsed_data' = parsed_data /\ Truthy(parsed_data)
            /\ generated_doc_buffer = NoBuffer

\* any other change of a session value is the reset of all three
ChangedTogether ==
    (Session' # Session /\ pc \in {"idle", "raised"}) =>
        Session' = <<None, None, NoBuffer>>

\* C11: after any sequence of script runs, a non-null generated_doc_buffer
\* comes with non-null parsed_data and non-empty extracted_text, all three
\* produced by the same submission; a submission that starts processing first
\* resets all three, so a failed run leaves no earlier document downloadable.
C11_SessionState ==
    [][SessionConsistent' /\ ResetStep /\ ProducedInOrder /\ ChangedTogether]_vars

\* a document stays downloadable over a later submission without a file
C11_Witness ==
    /\ pc = "idle"
    /\ submitted /\ upload = NoFile
    /\ Truthy(generated_doc_buffer)
    /\ Truthy(parsed_data) /\ Truthy(extracted_text)


(***************************************************************************)
(* generate_resume on data whose values spell placeholders.                *)
(***************************************************************************)
\* tokens of the stages after the simple replacements
InjectTokens == {"{SKILLS}", "{DEGREE}", "{COMPANYNAME}"}
InjectFields == {"name", "summary"}

InjectData ==
    {With(MkData("str", ne, nw, <<1, 1, 1>>), field, JStr(<<tok>>)) :
        ne \in 0..MaxEdu, nw \in 0..MaxWork,
        field \in InjectFields, tok \in InjectTokens}

InitInject ==
    /\ pc = "open"
    /\ template \in Templates
    /\ parsed_data \in InjectData
    /\ generated_doc_buffer = NoBuffer
    /\ doc = <<>>
    /\ tbl = NoLoop /\ tmpl = NoRows /\ scanDoc = NoScan
    /\ ei = 0 /\ ri = 0 /\ nextId = 0
    /\ upload = NoFile /\ submitted = TRUE /\ extracted_text = None
    /\ ocrCalls = 0 /\ ocrPath = FALSE
    /\ stages = <<>>
    /\ cell = <<>> /\ cell0 = <<>> /\ bkey = "" /\ bitems = None /\ bpar = 0

SpecInject == InitInject /\ [][Generate]_vars

\* the rows the template marks for expansion: per category, the template rows
\* of the first table holding one
MarkedRows ==
    UNION {IF HasBlock(template, cat)
           THEN Range(BlockRows(template, cat)) ELSE {} : cat \in Cats}

\* the rows of the template that are gone from d, and the rows clones in d
\* were made from
DeletedRows(d) == RowIds(template) \ RowIds(d)
ClonedRows(d) == {row.src : row \in {r \in AllRows(d) : r.ent # 0}}

\* a row of the template holding only tokens of the simple replacements
HoldsListToken(row) ==
    \E i \in DOMAIN ListKeys : ContainsKey(RowText(row), ListKeys[i][1])
PlainRow(row) ==
    /\ ~HoldsListToken(row)
    /\ \A cat \in Cats : ~HoldsToken(row, cat)

\* C12: text inserted from data is never taken for a placeholder by a later
\* stage: in the generated document the deleted and the cloned rows are the
\* ones the template marks, whatever the data, and a row of the template
\* holding only simple tokens is there with its values inserted verbatim (no
\* bullet expansion, no further substitution).
C12_NoInterference ==
    (pc = "present" /\ Truthy(generated_doc_buffer)) =>
        LET out == generated_doc_buffer.doc
            simple == SimpleStage(template, parsed_data)
        IN /\ DeletedRows(out) = MarkedRows
           /\ ClonedRows(out) \subseteq MarkedRows
           /\ \A t \in DOMAIN template : \A r \in DOMAIN template[t] :
                PlainRow(template[t][r]) =>
                    /\ HasRow(out[t], simple[t][r].rid)
                    /\ RowById(out[t], simple[t][r].rid) = simple[t][r]


(***************************************************************************)
(* The frame of a block expansion.                                         *)
(***************************************************************************)
\* the positions from the scan of a category to the end of its stage
FramePcs(cat) == {ClonePc(cat), RemovePc(cat), AfterPc(cat)}

\* the rows of the table the stage found there that hold no token of the
\* category, and the positions in the table of the rows it found / it added
KeptRows(before, cat) == SelectSeq(before, LAMBDA r : ~HoldsToken(r, cat))
TableIds(table) == {table[i].rid : i \in DOMAIN table}
OldAt(table, before) == {i \in DOMAIN table : table[i].rid \in TableIds(before)}
NewAt(table, before) == DOMAIN table \ OldAt(table, before)

\* C13: in the table processed for a category, the rows that are no template
\* rows of the category are kept, unmodified and in their order, and every
\* expanded row comes after every row that was there before, also when the
\* template rows are not contiguous.
C13_Frame ==
    \A cat \in Cats :
        (pc \in FramePcs(cat) /\ tbl[cat] # 0) =>
            LET table == doc[tbl[cat]]
                before == scanDoc[cat][tbl[cat]]
            IN /\ SelectSeq(table, LAMBDA r : r.rid \in TableIds(before)
                                              /\ ~HoldsToken(r, cat))
                    = KeptRows(before, cat)
               /\ \A i \in OldAt(table, before) :
                    \A j \in NewAt(table, before) : i < j
               /\ \A j \in NewAt(table, before) :
                    /\ table[j].ent # 0
                    /\ HoldsToken(RowById(before, table[j].src), cat)
               /\ pc = AfterPc(cat) =>
                    \A i \in OldAt(table, before) : ~HoldsToken(table[i], cat)

\* a block whose template rows are not contiguous was expanded
C13_Witness ==
    /\ pc = "lists"
    /\ tbl["edu"] # 0
    /\ Len(Entries("edu")) = MaxEdu
    /\ LET before == scanDoc["edu"][tbl["edu"]]
           table == doc[tbl["edu"]]
       IN /\ \E i, j, k \in DOMAIN before :
                /\ i < j /\ j < k
                /\ HoldsToken(before[i], "edu")
                /\ ~HoldsToken(before[j], "edu")
                /\ HoldsToken(before[k], "edu")
          /\ Len(KeptRows(before, "edu")) = 2
          /\ Len(table) = 2 + 2 * MaxEdu

====
